---- MODULE Spec2Model ----
(***************************************************************************)
(* State-machine model of the memory engine of the LongContext agent:      *)
(* the memories table (backend/database.py), the memory manager            *)
(* (backend/memory_manager.py), the context summarizer                     *)
(* (backend/summarizer.py) and the hybrid retriever (backend/retriever.py).*)
(*                                                                         *)
(* Time is counted in units of 30 minutes, the finest interval the code    *)
(* uses.  Relevance scores and compression ratios are exact rationals      *)
(* [n, d]; retrieval scores are integers in units of 1/10000 and fused     *)
(* scores in units of 1/100000.                                            *)
(***************************************************************************)
EXTENDS Integers, Sequences, FiniteSets, TLC

VARIABLES
    memories,   \* the memories table: id -> row
    vectors,    \* the vector collection: id -> session_id of its metadata
    now,        \* the wall clock (datetime.utcnow)
    nextId,     \* next fresh id / rowid (generate_id)
    steps,      \* number of operations run so far
    last,       \* observation of the operation that ran last
    inflight,   \* the compress_memory_batch pass that has read its rows and
                \* not yet written, or NoBatch
    turn        \* the process_message call under way: its retrieval task and
                \* its save task, or NoTurn

vars == <<memories, vectors, now, nextId, steps, last, inflight, turn>>

-----------------------------------------------------------------------------
(* Bounds of the model *)

MaxSeed == 21
MaxSteps == 2
EssayTokens == 2000
StampTokens == 4
PrefixWords == 2
MaxSpanDays == 9

-----------------------------------------------------------------------------
(* Time *)

ThirtyMinutes == 1
Hour == 2 * ThirtyMinutes
Day == 24 * Hour
StartTime == 40 * Day

-----------------------------------------------------------------------------
(* Exact rationals *)

RECURSIVE GCD(_, _)
GCD(a, b) == IF b = 0 THEN a ELSE GCD(b, a % b)

Rat(n, d) == LET g == GCD(n, d) IN IF n = 0 THEN [n |-> 0, d |-> 1]
                                   ELSE [n |-> n \div g, d |-> d \div g]

RMul(r, p, q) == Rat(r.n * p, r.d * q)

RLess(a, b) == a.n * b.d < b.n * a.d

RLeq(a, b) == a.n * b.d <= b.n * a.d

One == Rat(1, 1)

-----------------------------------------------------------------------------
(* Program constants *)

compression_threshold == 8000
min_memories_to_compress == 5
max_memories_per_summary == 20
max_input_tokens == 16000
min_relevance_threshold == Rat(3, 10)
CompressOldLimit == 20
CompressOldMinimum == 5
CheckCompressionLimit == 1000

Sessions == {"s1", "s2"}

MemoryType == {"conversation", "summary", "tool_output", "context"}

Roles == {"user", "assistant"}

NoRole == "none"

NoSummary == 0

-----------------------------------------------------------------------------
(* Content and token counts *)

Words == {"python", "error", "today", "essay", "recap", "ok"}

WordTokens(w) == IF w = "essay" THEN EssayTokens ELSE 1

RECURSIVE calculate_token_count(_)
calculate_token_count(text) ==
    IF text = <<>> THEN 0
    ELSE WordTokens(Head(text)) + calculate_token_count(Tail(text))

-----------------------------------------------------------------------------
(* Rows of the memories table *)

EmptyMetadata ==
    [role |-> NoRole, compressed |-> FALSE,
     compressed_memory_ids |-> <<>>, compressed_memories |-> <<>>,
     original_tokens |-> 0]

Memory(id, s, type, text, rel, ratio, ts, meta) ==
    [id |-> id, session_id |-> s, memory_type |-> type, content |-> text,
     relevance_score |-> rel, compression_ratio |-> ratio,
     token_count |-> calculate_token_count(text), timestamp |-> ts,
     metadata |-> meta]

save_memory(mems, m) == mems @@ (m.id :> m)

Before(a, b) ==
    \/ a.timestamp < b.timestamp
    \/ a.timestamp = b.timestamp /\ a.id <= b.id

RECURSIVE OrderByTimestampAsc(_, _)
OrderByTimestampAsc(ids, mems) ==
    IF ids = {} THEN <<>>
    ELSE LET first == CHOOSE x \in ids : \A y \in ids : Before(mems[x], mems[y])
         IN <<first>> \o OrderByTimestampAsc(ids \ {first}, mems)

Reverse(seq) == [i \in 1..Len(seq) |-> seq[Len(seq) + 1 - i]]

Limit(seq, k) == SubSeq(seq, 1, IF Len(seq) < k THEN Len(seq) ELSE k)

Range(seq) == {seq[i] : i \in 1..Len(seq)}

RECURSIVE SumTokens(_, _)
SumTokens(ids, mems) ==
    IF ids = {} THEN 0
    ELSE LET x == CHOOSE y \in ids : TRUE
         IN mems[x].token_count + SumTokens(ids \ {x}, mems)

get_memories(mems, s, types, limit) ==
    LET hit == {id \in DOMAIN mems :
                    /\ (s # "" => mems[id].session_id = s)
                    /\ (types # {} => mems[id].memory_type \in types)}
    IN Limit(Reverse(OrderByTimestampAsc(hit, mems)), limit)

-----------------------------------------------------------------------------
(* MemoryManager: message memories and the inline compression of save_message *)

MessageMemory(id, s, text, role, clock) ==
    Memory(id, s, "conversation", text, One, One, clock,
           [EmptyMetadata EXCEPT !.role = role])

StoredMemory(id, s, text, type, clock) ==
    Memory(id, s, type, text, Rat(8, 10), One, clock, EmptyMetadata)

CompressOldFactor == [n |-> 3, d |-> 10]

CompressOldRows(mems, s, clock) ==
    LET hit == {id \in DOMAIN mems :
                    /\ mems[id].session_id = s
                    /\ mems[id].timestamp < clock - Hour
                    /\ mems[id].memory_type # "summary"
                    /\ mems[id].compression_ratio = One}
    IN Limit(OrderByTimestampAsc(hit, mems), CompressOldLimit)

RECURSIVE Combined(_, _)
Combined(rows, mems) ==
    IF rows = <<>> THEN <<>>
    ELSE mems[Head(rows)].content \o Combined(Tail(rows), mems)

PlaceholderSummary(rows, mems) ==
    <<"recap">> \o Limit(SelectSeq(Combined(rows, mems), LAMBDA w : w # "essay"),
                         PrefixWords)

CompressionRatio(original_tokens, summary_tokens) ==
    IF summary_tokens > 0 THEN Rat(original_tokens, summary_tokens) ELSE One

ScaleRelevance(mems, ids, factor) ==
    [id \in DOMAIN mems |->
        IF id \in ids
        THEN [mems[id] EXCEPT !.relevance_score = RMul(@, factor.n, factor.d)]
        ELSE mems[id]]

\* a pass that replaces its sources by the summary
CompressOldReplacing(mems, nid, s, clock) ==
    LET rows == CompressOldRows(mems, s, clock)
        text == PlaceholderSummary(rows, mems)
        original_tokens == SumTokens(Range(rows), mems)
        ratio == CompressionRatio(original_tokens, calculate_token_count(text))
        summary_memory ==
            Memory(nid, s, "summary", text, Rat(7, 10), ratio, clock,
                   [EmptyMetadata EXCEPT !.compressed_memories = rows,
                                         !.original_tokens = original_tokens])
        kept == save_memory(mems, summary_memory)
    IN IF Len(rows) < CompressOldMinimum
       THEN [memories |-> mems, nextId |-> nid, summary |-> NoSummary]
       ELSE [memories |-> [id \in DOMAIN kept \ Range(rows) |-> kept[id]],
             nextId |-> nid + 1, summary |-> nid]

_compress_old_memories(mems, nid, s, clock) ==
    LET rows == CompressOldRows(mems, s, clock)
        text == PlaceholderSummary(rows, mems)
        original_tokens == SumTokens(Range(rows), mems)
        ratio == CompressionRatio(original_tokens, calculate_token_count(text))
        summary_memory ==
            Memory(nid, s, "summary", text, Rat(7, 10), ratio, clock,
                   [EmptyMetadata EXCEPT !.compressed_memories = rows,
                                         !.original_tokens = original_tokens])
    IN IF Len(rows) < CompressOldMinimum
       THEN [memories |-> mems, nextId |-> nid, summary |-> NoSummary]
       ELSE [memories |-> ScaleRelevance(save_memory(mems, summary_memory),
                                         Range(rows), CompressOldFactor),
             nextId |-> nid + 1, summary |-> nid]

_check_compression_needed(mems, nid, s, clock) ==
    LET rows == get_memories(mems, s, {}, CheckCompressionLimit)
        total_tokens == SumTokens(Range(rows), mems)
    IN IF total_tokens > compression_threshold
       THEN _compress_old_memories(mems, nid, s, clock)
       ELSE [memories |-> mems, nextId |-> nid, summary |-> NoSummary]

\* `writes` is how the store answers the two inserts: "ok", "message_failed"
\* (db.save_message returns False) or "memory_failed" (db.save_memory returns
\* False, which _create_message_memory does not look at)
save_message(mems, nid, s, text, role, writes, clock) ==
    IF writes = "message_failed"
    THEN [memories |-> mems, nextId |-> nid, summary |-> NoSummary,
          result |-> FALSE]
    ELSE LET r == IF writes = "memory_failed"
                  THEN _check_compression_needed(mems, nid, s, clock)
                  ELSE _check_compression_needed(
                           save_memory(mems, MessageMemory(nid, s, text, role,
                                                           clock)),
                           nid + 1, s, clock)
         IN [memories |-> r.memories, nextId |-> r.nextId,
             summary |-> r.summary, result |-> TRUE]

-----------------------------------------------------------------------------
(* ContextSummarizer *)

CompressedFactor == [n |-> 2, d |-> 10]

_find_compressible_memories(mems, s, cutoff_time) ==
    LET hit == {id \in DOMAIN mems :
                    /\ mems[id].session_id = s
                    /\ mems[id].timestamp < cutoff_time
                    /\ mems[id].memory_type # "summary"
                    /\ RLess(min_relevance_threshold, mems[id].relevance_score)}
    IN OrderByTimestampAsc(hit, mems)

\* the rows whose text generate_summary puts into the prompt
RECURSIVE content_parts(_, _, _)
content_parts(rows, mems, total_tokens) ==
    IF rows = <<>> THEN <<>>
    ELSE LET memory_tokens == StampTokens + mems[Head(rows)].token_count
         IN IF total_tokens + memory_tokens > max_input_tokens
            THEN <<>>
            ELSE <<Head(rows)>> \o
                 content_parts(Tail(rows), mems, total_tokens + memory_tokens)

\* `completion` is what the provider sends back; <<>> stands for no summary
\* (open circuit breaker, failed call, empty text)
generate_summary(rows, mems, completion) ==
    IF content_parts(rows, mems, 0) = <<>> THEN <<>> ELSE completion

LimitBatchUncapped(found) == found

LimitBatch(found) ==
    IF Len(found) > max_memories_per_summary
    THEN SubSeq(found, 1, max_memories_per_summary)
    ELSE found

MarkDeletingSources(mems, rows, found) ==
    [id \in DOMAIN mems \ Range(rows) |-> mems[id]]

_mark_memories_compressed(mems, rows, found) ==
    [id \in DOMAIN mems |->
        IF id \in Range(rows)
        THEN [mems[id] EXCEPT
                !.relevance_score = RMul(found[id].relevance_score,
                                         CompressedFactor.n, CompressedFactor.d),
                !.metadata.compressed = TRUE]
        ELSE mems[id]]

\* compress_memory_batch from the rows it has read: `read` is the store as
\* _find_compressible_memories saw it, `mems` the store its writes reach;
\* `stored` is whether the insert of the summary succeeds
CompressBatchFrom(read, mems, nid, s, cutoff_time, completion, stored, clock) ==
    LET found == _find_compressible_memories(read, s, cutoff_time)
        rows == LimitBatch(found)
        text == generate_summary(rows, read, completion)
        original_tokens == SumTokens(Range(rows), read)
        ratio == CompressionRatio(original_tokens, calculate_token_count(text))
        summary_memory ==
            Memory(nid, s, "summary", text, Rat(8, 10), ratio, clock,
                   [EmptyMetadata EXCEPT !.compressed_memory_ids = rows,
                                         !.original_tokens = original_tokens])
    IN IF Len(found) < min_memories_to_compress \/ text = <<>> \/ ~stored
       THEN [memories |-> mems, nextId |-> nid, summary |-> NoSummary]
       ELSE [memories |-> _mark_memories_compressed(
                              save_memory(mems, summary_memory), rows, read),
             nextId |-> nid + 1, summary |-> nid]

\* the sources marked before the summary is known to be stored
CompressMarkingFirst(mems, nid, s, cutoff_time, completion, stored, clock) ==
    LET r == CompressBatchFrom(mems, mems, nid, s, cutoff_time,
                               <<"recap", "today">>, TRUE, clock)
    IN IF completion = <<>> \/ ~stored
       THEN [memories |-> [id \in DOMAIN mems |-> r.memories[id]],
             nextId |-> nid, summary |-> NoSummary]
       ELSE r

compress_memory_batch(mems, nid, s, cutoff_time, completion, stored, clock) ==
    CompressBatchFrom(mems, mems, nid, s, cutoff_time, completion, stored,
                      clock)

NoSession == "none"

_get_session_memory_stats(mems, s) ==
    LET rows == {id \in DOMAIN mems : mems[id].session_id = s}
        stamps == {mems[id].timestamp : id \in rows}
    IN [total_memories |-> Cardinality(rows),
        total_tokens |-> SumTokens(rows, mems),
        has_memories |-> rows # {},
        oldest_memory |-> IF rows = {} THEN 0
                          ELSE CHOOSE t \in stamps : \A u \in stamps : t <= u,
        newest_memory |-> IF rows = {} THEN 0
                          ELSE CHOOSE t \in stamps : \A u \in stamps : u <= t,
        summary_count |-> Cardinality({id \in rows :
                                          mems[id].memory_type = "summary"}),
        \* the stats dictionary has no "session_id" key: stats.get gives None
        session_id |-> NoSession]

Min(a, b) == IF a < b THEN a ELSE b

compression_points(stats, clock) ==
    LET total_span == stats.newest_memory - stats.oldest_memory
        days_back == Min(7, (total_span \div Day) + 1)
    IN IF ~stats.has_memories THEN <<>>
       ELSE IF total_span < Hour THEN <<clock - ThirtyMinutes>>
       ELSE IF total_span < Day THEN <<clock - 4 * Hour, clock - Hour>>
       ELSE [day \in 1..(days_back - 1) |-> clock - day * Day]

CountBefore(mems, s, point) ==
    Cardinality({id \in DOMAIN mems :
                    /\ mems[id].session_id = s
                    /\ mems[id].timestamp < point
                    /\ mems[id].memory_type # "summary"})

_calculate_compression_points(mems, stats, clock) ==
    SelectSeq(compression_points(stats, clock),
              LAMBDA point : CountBefore(mems, stats.session_id, point)
                                 >= min_memories_to_compress)

\* the loop of adaptive_compression over the valid cutoffs; completions[i] is
\* the provider's answer for the i-th batch, stores[i] whether its summary
\* is stored
RECURSIVE CompressAll(_, _, _, _, _, _, _, _)
CompressAll(mems, nid, s, points, completions, stores, clock, made) ==
    IF points = <<>>
    THEN [memories |-> mems, nextId |-> nid, summaries |-> made]
    ELSE LET r == compress_memory_batch(mems, nid, s, Head(points),
                                        Head(completions), Head(stores), clock)
         IN CompressAll(r.memories, r.nextId, s, Tail(points),
                        Tail(completions), Tail(stores), clock,
                        IF r.summary = NoSummary THEN made
                        ELSE Append(made, r.summary))

\* the loop run on the newest cutoff without the threshold test
AdaptiveWithoutThreshold(mems, nid, s, completions, stores, clock) ==
    LET r == compress_memory_batch(mems, nid, s, clock, <<"recap", "today">>,
                                   TRUE, clock)
    IN [memories |-> r.memories, nextId |-> r.nextId,
        summaries |-> IF r.summary = NoSummary THEN <<>> ELSE <<r.summary>>]

adaptive_compression(mems, nid, s, completions, stores, clock) ==
    LET stats == _get_session_memory_stats(mems, s)
    IN IF stats.total_tokens < compression_threshold
       THEN [memories |-> mems, nextId |-> nid, summaries |-> <<>>]
       ELSE CompressAll(mems, nid, s,
                        _calculate_compression_points(mems, stats, clock),
                        completions, stores, clock, <<>>)

-----------------------------------------------------------------------------
(* MemoryManager: maintenance *)

DailyBoost == [n |-> 105, d |-> 100]

DailyDecay == [n |-> 95, d |-> 100]

RetentionFloor == [n |-> 3, d |-> 10]

recompute_relevance_scores(mems, s, clock) ==
    ScaleRelevance(mems,
                   {id \in DOMAIN mems : /\ mems[id].session_id = s
                                         /\ mems[id].timestamp < clock - Day},
                   DailyDecay)

CleanupAnyOld(mems, days, clock) ==
    [id \in {i \in DOMAIN mems : ~(mems[i].timestamp < clock - days * Day)}
        |-> mems[id]]

cleanup_old_memories(mems, days, clock) ==
    LET cutoff_date == clock - days * Day
        gone == {id \in DOMAIN mems :
                    /\ mems[id].timestamp < cutoff_date
                    /\ RLess(mems[id].relevance_score, RetentionFloor)}
    IN [id \in DOMAIN mems \ gone |-> mems[id]]

retrieval_limit == 10

relevance_threshold == Rat(7, 10)

HighRelevance == Rat(9, 10)

\* ORDER BY / sort key (relevance_score, timestamp), descending
RECURSIVE SortByRelevanceDesc(_, _)
SortByRelevanceDesc(ids, mems) ==
    IF ids = {} THEN <<>>
    ELSE LET first == CHOOSE x \in ids : \A y \in ids :
                        \/ RLess(mems[y].relevance_score, mems[x].relevance_score)
                        \/ /\ mems[y].relevance_score = mems[x].relevance_score
                           /\ Before(mems[y], mems[x])
         IN <<first>> \o SortByRelevanceDesc(ids \ {first}, mems)

\* limit 0 and threshold 0.0 are falsy and give the defaults
search_memories(mems, query, s, types, limit, threshold) ==
    LET lim == IF limit = 0 THEN retrieval_limit ELSE limit
        thr == IF threshold.n = 0 THEN relevance_threshold ELSE threshold
        rows == get_memories(mems, s, types, lim * 2)
        filtered_memories ==
            SelectSeq(rows,
                      LAMBDA id :
                          /\ ~RLess(mems[id].relevance_score, thr)
                          /\ \/ \E keyword \in Range(query) :
                                    keyword \in Range(mems[id].content)
                             \/ RLess(HighRelevance, mems[id].relevance_score))
        sorted == SortByRelevanceDesc(Range(filtered_memories), mems)
    IN Limit([i \in 1..Len(sorted) |-> mems[sorted[i]]], lim)

store_memory(mems, nid, s, text, type, clock) ==
    save_memory(mems, StoredMemory(nid, s, text, type, clock))

-----------------------------------------------------------------------------
(* Stores the engine can have built before the modelled run: n rows of      *)
(* session s1, 30 minutes apart, the newest `age` old.  The older rows are  *)
(* short messages put by save_message, the newest `heavy` rows are long     *)
(* tool outputs put by store_memory; one context row belongs to session s2. *)

HeavySeeds == 5

CapSeeds == 9

SeedSizes == {0, 6, MaxSeed}

SeedAges == {0, 2 * Hour, 31 * Day}

SeedRow(i, n, age, heavy) ==
    LET ts == StartTime - age - (n - i) * ThirtyMinutes
    IN IF i > n - heavy
       THEN StoredMemory(i, "s1", <<"essay", "error">>, "tool_output", ts)
       ELSE MessageMemory(i, "s1",
                          IF i % 2 = 1 THEN <<"python", "error", "today">>
                                       ELSE <<"error", "today">>,
                          IF i % 2 = 1 THEN "user" ELSE "assistant", ts)

SeedStore(n, age, heavy) ==
    IF n = 0 THEN <<>>
    ELSE [i \in 1..(n + 1) |->
            IF i <= n THEN SeedRow(i, n, age, heavy)
            ELSE StoredMemory(i, "s2", <<"python", "today">>, "context",
                              StartTime - age - n * ThirtyMinutes)]

NoBatch == [session |-> "none", cutoff_time |-> 0, read |-> <<>>]

NoTurn == [session |-> "none", message |-> <<>>, retrieval |-> "idle", save |-> "idle", recent_memories |-> <<>>]

Observation(op, s, cutoff, days, summary) ==
    [op |-> op, session |-> s, cutoff |-> cutoff, days |-> days,
     summary |-> summary]

Init ==
    \E n \in SeedSizes, age \in SeedAges, heavy \in {0, HeavySeeds} :
        /\ memories = SeedStore(n, age, heavy)
        /\ vectors = <<>>
        /\ now = StartTime
        /\ nextId = IF n = 0 THEN 1 ELSE n + 2
        /\ steps = 0
        /\ last = Observation("init", NoSession, 0, 0, NoSummary)
        /\ inflight = NoBatch
        /\ turn = NoTurn

-----------------------------------------------------------------------------
(* Operations *)

MessageTexts == {<<"python", "error">>, <<"essay">>}

MessageRoles == {"user", "assistant"}

WriteOutcomes == {"message_failed", "memory_failed"}

StoredTypes == {"tool_output"}

CutoffAges == {0, Hour, Day}

Completions == {<<>>, <<"recap", "today">>}

RetentionDays == {0, 1, 30}

Ticks == {Day, 31 * Day}

SaveMessage(s, text, role, writes) ==
    /\ steps < MaxSteps
    /\ LET r == save_message(memories, nextId, s, text, role, writes, now)
       IN /\ memories' = r.memories
          /\ nextId' = r.nextId
          /\ last' = Observation("save_message", s, now - Hour, 0, r.summary)
                        @@ [writes |-> writes, result |-> r.result]
    /\ steps' = steps + 1
    /\ UNCHANGED <<vectors, now, inflight, turn>>

StoreMemory(s, text, type, embedding) ==
    /\ steps < MaxSteps
    /\ memories' = store_memory(memories, nextId, s, text, type, now)
    /\ vectors' = IF embedding THEN vectors @@ (nextId :> s) ELSE vectors
    /\ nextId' = nextId + 1
    /\ last' = Observation("store_memory", s, 0, 0, NoSummary)
    /\ steps' = steps + 1
    /\ UNCHANGED <<now, inflight, turn>>

CompressMemoryBatch(s, cutoff_time, completion, stored) ==
    /\ steps < MaxSteps
    /\ LET r == compress_memory_batch(memories, nextId, s, cutoff_time,
                                      completion, stored, now)
       IN /\ memories' = r.memories
          /\ nextId' = r.nextId
          /\ last' = Observation("compress_memory_batch", s, cutoff_time, 0,
                                 r.summary)
                        @@ [completion |-> completion, stored |-> stored,
                            sent |-> content_parts(
                                         LimitBatch(_find_compressible_memories(
                                             memories, s, cutoff_time)),
                                         memories, 0)]
    /\ steps' = steps + 1
    /\ UNCHANGED <<vectors, now, inflight, turn>>

AdaptiveCompression(s) ==
    /\ steps < MaxSteps
    /\ LET stats == _get_session_memory_stats(memories, s)
           points == _calculate_compression_points(memories, stats, now)
       IN \E completions \in [1..Len(points) -> Completions],
             stores \in [1..Len(points) -> BOOLEAN] :
            LET r == adaptive_compression(memories, nextId, s, completions,
                                          stores, now)
            IN /\ memories' = r.memories
               /\ nextId' = r.nextId
               /\ last' = Observation("adaptive_compression", s, 0, 0,
                                      IF r.summaries = <<>> THEN NoSummary
                                      ELSE r.summaries[Len(r.summaries)])
    /\ steps' = steps + 1
    /\ UNCHANGED <<vectors, now, inflight, turn>>

RecomputeRelevanceScores(s) ==
    /\ steps < MaxSteps
    /\ memories' = recompute_relevance_scores(memories, s, now)
    /\ last' = Observation("recompute_relevance_scores", s, now - Day, 0,
                           NoSummary)
    /\ steps' = steps + 1
    /\ UNCHANGED <<vectors, now, nextId, inflight, turn>>

CleanupOldMemories(days) ==
    /\ steps < MaxSteps
    /\ memories' = cleanup_old_memories(memories, days, now)
    /\ last' = Observation("cleanup_old_memories", NoSession,
                           now - days * Day, days, NoSummary)
    /\ steps' = steps + 1
    /\ UNCHANGED <<vectors, now, nextId, inflight, turn>>

Tick(d) ==
    /\ steps < MaxSteps
    /\ now' = now + d
    /\ last' = Observation("tick", NoSession, 0, 0, NoSummary)
    /\ steps' = steps + 1
    /\ UNCHANGED <<memories, vectors, nextId, inflight, turn>>

Next ==
    \/ \E s \in Sessions, text \in MessageTexts, role \in MessageRoles :
            SaveMessage(s, text, role, "ok")
    \/ \E s \in Sessions, writes \in WriteOutcomes :
            SaveMessage(s, <<"python", "error">>, "user", writes)
    \/ \E s \in Sessions, type \in StoredTypes, embedding \in BOOLEAN :
            StoreMemory(s, <<"today">>, type, embedding)
    \/ \E s \in Sessions, age \in CutoffAges, completion \in Completions :
            CompressMemoryBatch(s, now - age, completion, TRUE)
    \/ \E s \in Sessions, age \in CutoffAges :
            CompressMemoryBatch(s, now - age, <<"recap", "today">>, FALSE)
    \/ \E s \in Sessions : AdaptiveCompression(s)
    \/ \E s \in Sessions : RecomputeRelevanceScores(s)
    \/ \E days \in RetentionDays : CleanupOldMemories(days)
    \/ \E d \in Ticks : Tick(d)

Spec == Init /\ [][Next]_vars

-----------------------------------------------------------------------------
(* A compress_memory_batch pass as other writers see it: it reads its rows, *)
(* waits for the provider, and then writes the summary and the sources'     *)
(* relevance computed from the rows as read.                                *)

BeginCompression(s, cutoff_time) ==
    /\ steps < MaxSteps
    /\ inflight.session = NoSession
    /\ inflight' =
          IF Len(_find_compressible_memories(memories, s, cutoff_time))
                < min_memories_to_compress
          THEN NoBatch
          ELSE [session |-> s, cutoff_time |-> cutoff_time, read |-> memories]
    /\ last' = Observation("_find_compressible_memories", s, cutoff_time, 0,
                           NoSummary)
    /\ steps' = steps + 1
    /\ UNCHANGED <<memories, vectors, now, nextId, turn>>

FinishCompression(completion, stored) ==
    /\ inflight.session # NoSession
    /\ LET r == CompressBatchFrom(inflight.read, memories, nextId,
                                  inflight.session, inflight.cutoff_time,
                                  completion, stored, now)
       IN /\ memories' = r.memories
          /\ nextId' = r.nextId
          /\ last' = Observation("_mark_memories_compressed",
                                 inflight.session, inflight.cutoff_time, 0,
                                 r.summary)
    /\ inflight' = NoBatch
    /\ UNCHANGED <<vectors, now, steps, turn>>

RaceNext ==
    \/ \E s \in Sessions, age \in CutoffAges : BeginCompression(s, now - age)
    \/ \E completion \in Completions, stored \in BOOLEAN :
            FinishCompression(completion, stored)
    \/ \E s \in Sessions : RecomputeRelevanceScores(s)
    \/ \E d \in Ticks : Tick(d)

RaceSpec == Init /\ [][RaceNext]_vars

-----------------------------------------------------------------------------
(* compress_memory_batch on stores whose batch of 20 can hold more text     *)
(* than generate_summary puts into one prompt: up to CapSeeds long rows.    *)

BatchInit ==
    \E n \in SeedSizes, age \in {0, 2 * Hour},
       heavy \in {0, HeavySeeds, CapSeeds} :
        /\ memories = SeedStore(n, age, heavy)
        /\ vectors = <<>>
        /\ now = StartTime
        /\ nextId = IF n = 0 THEN 1 ELSE n + 2
        /\ steps = 0
        /\ last = Observation("init", NoSession, 0, 0, NoSummary)
        /\ inflight = NoBatch
        /\ turn = NoTurn

BatchNext ==
    \/ \E s \in Sessions, age \in CutoffAges, completion \in Completions :
            CompressMemoryBatch(s, now - age, completion, TRUE)
    \/ \E s \in Sessions, age \in CutoffAges :
            CompressMemoryBatch(s, now - age, <<"recap", "today">>, FALSE)

BatchSpec == BatchInit /\ [][BatchNext]_vars

-----------------------------------------------------------------------------
(* The cutoffs of adaptive_compression, on stores whose rows span from a    *)
(* few minutes to several days: n rows of s1 put 30 minutes apart, the      *)
(* newest `age` ago, and, when `fresh`, one more row stored just now.       *)

PointSizes == {0, 1, 2, 6}

PointAges == {0, Hour, 3 * Hour} \cup {d * Day : d \in 1..MaxSpanDays}

PointsInit ==
    \E n \in PointSizes, age \in PointAges, fresh \in BOOLEAN :
        LET seed == SeedStore(n, age, 0)
        IN /\ memories = IF fresh
                         THEN store_memory(seed, n + 2, "s1", <<"today">>,
                                           "tool_output", StartTime)
                         ELSE seed
           /\ vectors = <<>>
           /\ now = StartTime
           /\ nextId = n + 3
           /\ steps = 0
           /\ last = Observation("init", NoSession, 0, 0, NoSummary)
           /\ inflight = NoBatch
           /\ turn = NoTurn

CalculateCompressionPoints(s) ==
    /\ last.op = "init"
    /\ LET stats == _get_session_memory_stats(memories, s)
       IN last' = [op |-> "_calculate_compression_points", session |-> s,
                   compression_points |-> compression_points(stats, now),
                   valid_points |->
                       _calculate_compression_points(memories, stats, now)]
    /\ UNCHANGED <<memories, vectors, now, nextId, steps, inflight, turn>>

PointsNext == \E s \in Sessions : CalculateCompressionPoints(s)

PointsSpec == PointsInit /\ [][PointsNext]_vars

-----------------------------------------------------------------------------
(* HybridRetriever.  A query is the sequence of its words.  Similarities    *)
(* are counted in 1/600, branch scores in 1/10000, fused scores in          *)
(* 1/100000, vector distances in tenths.                                    *)

semantic_weight == 7
keyword_weight == 3
relevance_decay_days == 7
SimilarityOne == 600
PhraseBoost == 180
ScoreFloor == 1000
DecayFloor == 100
DefaultMinRelevance == 30000
RecentLimit == 20
RecentWindow == 10
RelevantLimit == 15
DefaultContextTokens == 4000

WordLength(w) == IF w = "ok" THEN 2 ELSE IF w = "python" THEN 6 ELSE 5

RECURSIVE QueryLength(_)
QueryLength(query) ==
    IF query = <<>> THEN 0
    ELSE IF Len(query) = 1 THEN WordLength(query[1])
    ELSE WordLength(Head(query)) + 1 + QueryLength(Tail(query))

\* query.lower() in content.lower()
Contains(content, query) ==
    \E i \in 1..(Len(content) - Len(query) + 1) :
        SubSeq(content, i, i + Len(query) - 1) = query

calculate_keyword_similarity(query, content) ==
    LET query_words == Range(query)
        content_words == Range(content)
        intersection == query_words \cap content_words
        union == query_words \cup content_words
        jaccard == IF union = {} THEN 0
                   ELSE (SimilarityOne * Cardinality(intersection))
                            \div Cardinality(union)
        phrase_boost == IF QueryLength(query) > 3 /\ Contains(content, query)
                        THEN PhraseBoost ELSE 0
    IN IF query_words = {} THEN 0
       ELSE Min(SimilarityOne, jaccard + phrase_boost)

RECURSIVE Pow2(_)
Pow2(k) == IF k = 0 THEN 1 ELSE 2 * Pow2(k - 1)

\* 2 ** (-age_days / 7) in thousandths, exact at whole half-lives and linear
\* between them, with the floor of 0.1
calculate_temporal_decay(timestamp, clock) ==
    LET age == clock - timestamp
        half_life == relevance_decay_days * Day
        decay_factor == (1000 * (2 * half_life - (age % half_life)))
                            \div (2 * half_life * Pow2(age \div half_life))
    IN IF decay_factor < DecayFloor THEN DecayFloor ELSE decay_factor

\* the Memory object both searches build from a row: metadata is left empty
FoundMemory(row) == [row EXCEPT !.metadata = EmptyMetadata]

RelevancePart(row) == (3000 * row.relevance_score.n) \div row.relevance_score.d

Remove(seq, i) == SubSeq(seq, 1, i - 1) \o SubSeq(seq, i + 1, Len(seq))

KeepOrder(seq) == seq

\* list.sort(key=score, reverse=True): stable
RECURSIVE SortByScoreDesc(_)
SortByScoreDesc(seq) ==
    IF seq = <<>> THEN <<>>
    ELSE LET i == CHOOSE k \in 1..Len(seq) :
                    /\ \A j \in 1..Len(seq) : seq[j].score <= seq[k].score
                    /\ \A j \in 1..(k - 1) : seq[j].score < seq[k].score
         IN <<seq[i]>> \o SortByScoreDesc(Remove(seq, i))

\* the vector collection's nearest neighbours, nearest first
RECURSIVE OrderByDistance(_, _)
OrderByDistance(ids, distance) ==
    IF ids = {} THEN <<>>
    ELSE LET first == CHOOSE x \in ids : \A y \in ids :
                        \/ distance[x] < distance[y]
                        \/ distance[x] = distance[y] /\ x <= y
         IN <<first>> \o OrderByDistance(ids \ {first}, distance)

\* the vector query without its where clause
SearchVectorsUnfiltered(vecs, distance, limit, s) ==
    Limit(OrderByDistance(DOMAIN vecs, distance), limit)

search_memories_vector(vecs, distance, limit, s) ==
    Limit(OrderByDistance({id \in DOMAIN vecs : s # "" => vecs[id] = s},
                          distance), limit)

SemanticScore(row, distance, clock) ==
    600 * (10 - distance) + RelevancePart(row)
        + calculate_temporal_decay(row.timestamp, clock)

\* `embedding` is the outcome of generate_embedding and of the vector query:
\* "ok", "none" (no embedding) or "error" (an exception inside the search)
semantic_search(mems, vecs, distance, query, limit, s, types, embedding, clock) ==
    LET vector_results == search_memories_vector(vecs, distance, limit * 2, s)
        kept == SelectSeq(vector_results,
                          LAMBDA id : /\ id \in DOMAIN mems
                                      /\ (types # {} =>
                                            mems[id].memory_type \in types))
        memory_scores == [i \in 1..Len(kept) |->
                            [memory |-> FoundMemory(mems[kept[i]]),
                             score |-> SemanticScore(mems[kept[i]],
                                                     distance[kept[i]], clock)]]
    IN IF embedding # "ok" THEN <<>>
       ELSE Limit(SortByScoreDesc(memory_scores), limit)

\* ORDER BY relevance_score DESC, timestamp DESC
RowFirst(a, b) ==
    \/ RLess(b.relevance_score, a.relevance_score)
    \/ a.relevance_score = b.relevance_score /\ Before(b, a)

RECURSIVE OrderByRelevanceDesc(_, _)
OrderByRelevanceDesc(ids, mems) ==
    IF ids = {} THEN <<>>
    ELSE LET first == CHOOSE x \in ids : \A y \in ids : RowFirst(mems[x], mems[y])
         IN <<first>> \o OrderByRelevanceDesc(ids \ {first}, mems)

KeywordScore(row, query, clock) ==
    10 * calculate_keyword_similarity(query, row.content) + RelevancePart(row)
        + calculate_temporal_decay(row.timestamp, clock)

\* `outcome` is "ok" or "error" (an exception inside the search)
keyword_search(mems, query, limit, s, types, outcome, clock) ==
    LET hit == {id \in DOMAIN mems :
                    /\ (s # "" => mems[id].session_id = s)
                    /\ (types # {} => mems[id].memory_type \in types)
                    /\ (query # <<>> =>
                          \E term \in Range(query) :
                              term \in Range(mems[id].content))}
        rows == Limit(OrderByRelevanceDesc(hit, mems), limit * 2)
        scored == [i \in 1..Len(rows) |->
                     [memory |-> FoundMemory(mems[rows[i]]),
                      score |-> KeywordScore(mems[rows[i]], query, clock)]]
        memory_scores == SelectSeq(scored, LAMBDA e : e.score > ScoreFloor)
    IN IF outcome # "ok" THEN <<>>
       ELSE Limit(SortByScoreDesc(memory_scores), limit)

Position(seq, id) ==
    IF \E i \in 1..Len(seq) : seq[i].memory.id = id
    THEN CHOOSE i \in 1..Len(seq) : seq[i].memory.id = id
    ELSE 0

RECURSIVE AddSemantic(_, _)
AddSemantic(combined, results) ==
    IF results = <<>> THEN combined
    ELSE LET entry == [memory |-> Head(results).memory,
                       semantic_score |-> Head(results).score,
                       keyword_score |-> 0]
             at == Position(combined, entry.memory.id)
         IN AddSemantic(IF at = 0 THEN Append(combined, entry)
                        ELSE [combined EXCEPT ![at] = entry],
                        Tail(results))

AddKeywordOverwriting(combined, results) ==
    IF results = <<>> THEN combined
    ELSE SelectSeq(combined,
                   LAMBDA e : \A i \in 1..Len(results) :
                                 results[i].memory.id # e.memory.id)
         \o [i \in 1..Len(results) |->
                [memory |-> results[i].memory, semantic_score |-> 0,
                 keyword_score |-> results[i].score]]

RECURSIVE AddKeyword(_, _)
AddKeyword(combined, results) ==
    IF results = <<>> THEN combined
    ELSE LET at == Position(combined, Head(results).memory.id)
         IN AddKeyword(
                IF at = 0
                THEN Append(combined, [memory |-> Head(results).memory,
                                       semantic_score |-> 0,
                                       keyword_score |-> Head(results).score])
                ELSE [combined EXCEPT ![at].keyword_score = Head(results).score],
                Tail(results))

\* the two weights exchanged
HybridScoreSwapped(entry) ==
    entry.semantic_score * keyword_weight + entry.keyword_score * semantic_weight

HybridScore(entry) ==
    entry.semantic_score * semantic_weight + entry.keyword_score * keyword_weight

Memories(scored) == [i \in 1..Len(scored) |-> scored[i].memory]

\* the fusion of the two result lists: combined_scores, the threshold, the
\* sort and the cut
CombineResults(semantic_results, keyword_results, limit, min_relevance) ==
    LET combined_scores == AddKeyword(AddSemantic(<<>>, semantic_results),
                                      keyword_results)
        scored == [i \in 1..Len(combined_scores) |->
                     [memory |-> combined_scores[i].memory,
                      score |-> HybridScore(combined_scores[i])]]
        final_results == SortByScoreDesc(
                             SelectSeq(scored,
                                       LAMBDA e : e.score >= min_relevance))
    IN [semantic_results |-> semantic_results,
        keyword_results |-> keyword_results,
        final_results |-> final_results,
        retrieved_memories |-> Memories(Limit(final_results, limit))]

HybridSearchAborting(mems, vecs, distance, query, limit, s, types, min_relevance, embedding, outcome, clock) ==
    IF embedding # "ok" \/ outcome # "ok"
    THEN CombineResults(<<>>, <<>>, limit, min_relevance)
    ELSE CombineResults(
             semantic_search(mems, vecs, distance, query, limit, s, types,
                             embedding, clock),
             keyword_search(mems, query, limit, s, types, outcome, clock),
             limit, min_relevance)

hybrid_search(mems, vecs, distance, query, limit, s, types, min_relevance, embedding, outcome, clock) ==
    CombineResults(
        semantic_search(mems, vecs, distance, query, limit, s, types,
                        embedding, clock),
        keyword_search(mems, query, limit, s, types, outcome, clock),
        limit, min_relevance)

\* dict assignment all_memories[memory.id] = memory: a known key keeps its place
RECURSIVE PutAll(_, _)
PutAll(all_memories, items) ==
    IF items = <<>> THEN all_memories
    ELSE LET at == IF \E i \in 1..Len(all_memories) :
                        all_memories[i].id = Head(items).id
                   THEN CHOOSE i \in 1..Len(all_memories) :
                            all_memories[i].id = Head(items).id
                   ELSE 0
         IN PutAll(IF at = 0 THEN Append(all_memories, Head(items))
                   ELSE [all_memories EXCEPT ![at] = Head(items)],
                   Tail(items))

\* sorted(..., key=timestamp): stable
RECURSIVE SortByTimestamp(_)
SortByTimestamp(seq) ==
    IF seq = <<>> THEN <<>>
    ELSE LET i == CHOOSE k \in 1..Len(seq) :
                    /\ \A j \in 1..Len(seq) : seq[k].timestamp <= seq[j].timestamp
                    /\ \A j \in 1..(k - 1) : seq[k].timestamp < seq[j].timestamp
         IN <<seq[i]>> \o SortByTimestamp(Remove(seq, i))

SelectWhileUnder(sorted_memories, current_tokens, max_tokens) ==
    LET Sum[k \in 0..Len(sorted_memories)] ==
            IF k = 0 THEN current_tokens
            ELSE Sum[k - 1] + sorted_memories[k].token_count
        fits == {k \in 1..Len(sorted_memories) :
                    \A j \in 1..k : Sum[j - 1] <= max_tokens}
    IN SubSeq(sorted_memories, 1, Cardinality(fits))

\* the loop with `continue` in place of `break`
RECURSIVE SelectSkipping(_, _, _)
SelectSkipping(sorted_memories, current_tokens, max_tokens) ==
    IF sorted_memories = <<>> THEN <<>>
    ELSE IF current_tokens + Head(sorted_memories).token_count <= max_tokens
    THEN <<Head(sorted_memories)>> \o
         SelectSkipping(Tail(sorted_memories),
                        current_tokens + Head(sorted_memories).token_count,
                        max_tokens)
    ELSE SelectSkipping(Tail(sorted_memories), current_tokens, max_tokens)

RECURSIVE SelectWithin(_, _, _)
SelectWithin(sorted_memories, current_tokens, max_tokens) ==
    IF sorted_memories = <<>> THEN <<>>
    ELSE IF current_tokens + Head(sorted_memories).token_count <= max_tokens
    THEN <<Head(sorted_memories)>> \o
         SelectWithin(Tail(sorted_memories),
                      current_tokens + Head(sorted_memories).token_count,
                      max_tokens)
    ELSE <<>>

LastOf(seq, k) == SubSeq(seq, IF Len(seq) > k THEN Len(seq) - k + 1 ELSE 1, Len(seq))

\* retrieve_context after its two reads: the union, the sort and the cut
ContextFrom(recent_memories, relevant_memories, max_tokens, raised) ==
    LET recent_window == LastOf(recent_memories, RecentWindow)
        all_memories == PutAll(PutAll(<<>>, recent_window), relevant_memories)
        sorted_memories == SortByTimestamp(all_memories)
    IN [recent_memories |-> recent_memories,
        recent_window |-> recent_window,
        relevant_memories |-> relevant_memories,
        sorted_memories |-> sorted_memories,
        selected_memories |-> IF raised THEN <<>>
                              ELSE SelectWithin(sorted_memories, 0, max_tokens)]

\* `raised` stands for an exception inside the try block
retrieve_context(mems, vecs, distance, query, s, max_tokens, embedding, outcome, raised, clock) ==
    LET recent_ids == get_memories(mems, s, {"conversation"}, RecentLimit)
        recent_memories == [i \in 1..Len(recent_ids) |-> mems[recent_ids[i]]]
        relevant_memories ==
            hybrid_search(mems, vecs, distance, query, RelevantLimit, s, {},
                          DefaultMinRelevance, embedding, outcome,
                          clock).retrieved_memories
    IN ContextFrom(recent_memories, relevant_memories, max_tokens, raised)

-----------------------------------------------------------------------------
(* Retrieval, one call on a store the engine can have built: a seeded       *)
(* store, as it is or after one compression batch.  The vector collection   *)
(* holds the oldest and the newest row of s1, the row of s2, and one row    *)
(* that cleanup has since removed from the table.                           *)

Queries == {<<>>, <<"python", "error">>, <<"today">>}

Limits == {1, 3}

TypeFilters == {{}, {"conversation"}}

MinRelevances == {0, 25000, DefaultMinRelevance}

TokenBudgets == {0, 7, 40, 4000}

Near == 0

Far == 12

EmbeddingOutcomes == {"ok", "none", "error"}

SearchOutcomes == {"ok", "error"}

\* the distances the vector query can report for the stored embeddings
DistanceProfiles(vecs, embedding) ==
    IF embedding = "ok"
    THEN {[id \in DOMAIN vecs |-> IF id \in near THEN Near ELSE Far] :
            near \in {{}, DOMAIN vecs \ {1}, DOMAIN vecs}}
    ELSE {[id \in DOMAIN vecs |-> Near]}

\* the ages of the seeded store at the time of the call: fresh, or, for the
\* store of six plain messages, old enough for every temporal decay to be at
\* its floor
SearchAges(n, heavy, compressed) ==
    IF n = 6 /\ heavy = 0 /\ ~compressed THEN {0, 31 * Day} ELSE {0}

SearchInit ==
    \E n \in SeedSizes, heavy \in {0, HeavySeeds}, compressed \in BOOLEAN :
      \E age \in SearchAges(n, heavy, compressed) :
        LET seed == SeedStore(n, age, heavy)
            removed == IF n = 0 THEN 1 ELSE n + 2
            r == IF compressed
                 THEN compress_memory_batch(seed, removed + 1, "s1", StartTime,
                                            <<"recap", "today">>, TRUE, StartTime)
                 ELSE [memories |-> seed, nextId |-> removed + 1]
        IN /\ memories = r.memories
           /\ vectors = [id \in ({1, n, n + 1} \cap DOMAIN seed) \cup {removed}
                           |-> IF id \in DOMAIN seed
                               THEN seed[id].session_id ELSE "s1"]
           /\ now = StartTime
           /\ nextId = r.nextId
           /\ steps = 0
           /\ last = Observation("init", NoSession, 0, 0, NoSummary)
           /\ inflight = NoBatch
           /\ turn = NoTurn

HybridSearch(query, limit, s, types, min_relevance, embedding, outcome) ==
    /\ last.op = "init"
    /\ \E distance \in DistanceProfiles(vectors, embedding) :
         LET r == hybrid_search(memories, vectors, distance, query, limit, s,
                                types, min_relevance, embedding, outcome, now)
         IN last' = [op |-> "hybrid_search", query |-> query, limit |-> limit,
                     session |-> s, types |-> types,
                     min_relevance |-> min_relevance,
                     embedding |-> embedding, outcome |-> outcome,
                     distance |-> distance,
                     semantic_results |-> r.semantic_results,
                     keyword_results |-> r.keyword_results,
                     final_results |-> r.final_results,
                     retrieved_memories |-> r.retrieved_memories]
    /\ UNCHANGED <<memories, vectors, now, nextId, steps, inflight, turn>>

RetrieveContext(query, s, max_tokens, embedding, outcome, raised) ==
    /\ last.op = "init"
    /\ \E distance \in DistanceProfiles(vectors, embedding) :
         LET r == retrieve_context(memories, vectors, distance, query, s,
                                   max_tokens, embedding, outcome, raised, now)
         IN last' = [op |-> "retrieve_context", query |-> query,
                     session |-> s, max_tokens |-> max_tokens,
                     embedding |-> embedding, outcome |-> outcome,
                     raised |-> raised, distance |-> distance,
                     recent_memories |-> r.recent_memories,
                     recent_window |-> r.recent_window,
                     relevant_memories |-> r.relevant_memories,
                     sorted_memories |-> r.sorted_memories,
                     selected_memories |-> r.selected_memories]
    /\ UNCHANGED <<memories, vectors, now, nextId, steps, inflight, turn>>

SearchLimits == {0, 1, 3}

SearchThresholds == {Rat(0, 1), Rat(95, 100)}

SearchMemories(query, s, types, limit, threshold) ==
    /\ last.op = "init"
    /\ last' = [op |-> "search_memories", query |-> query, session |-> s,
                types |-> types, limit |-> limit, threshold |-> threshold,
                result |-> search_memories(memories, query, s, types, limit,
                                           threshold)]
    /\ UNCHANGED <<memories, vectors, now, nextId, steps, inflight, turn>>

SearchNext ==
    \/ \E query \in Queries, s \in Sessions \cup {""}, types \in TypeFilters,
          limit \in SearchLimits, threshold \in SearchThresholds :
            SearchMemories(query, s, types, limit, threshold)
    \/ \E query \in Queries, limit \in Limits, s \in Sessions \cup {""},
          types \in TypeFilters, min_relevance \in MinRelevances,
          embedding \in EmbeddingOutcomes, outcome \in SearchOutcomes :
            HybridSearch(query, limit, s, types, min_relevance, embedding,
                         outcome)
    \/ \E query \in Queries, s \in Sessions, max_tokens \in TokenBudgets,
          embedding \in EmbeddingOutcomes, outcome \in SearchOutcomes,
          raised \in BOOLEAN :
            RetrieveContext(query, s, max_tokens, embedding, outcome, raised)

SearchSpec == SearchInit /\ [][SearchNext]_vars

-----------------------------------------------------------------------------
(* One turn of process_message: it creates the retrieval task and the task  *)
(* that saves the user message and awaits both.  The retrieval task reads   *)
(* the recent rows and then runs the hybrid search; each read and the save  *)
(* run on the executor in whatever order the tasks reach them.              *)

ProcessMessage(s, text) ==
    /\ steps = 0
    /\ turn.session = NoSession
    /\ turn' = [session |-> s, message |-> text, retrieval |-> "created",
                save |-> "created", recent_memories |-> <<>>]
    /\ last' = Observation("process_message", s, 0, 0, NoSummary)
    /\ steps' = steps + 1
    /\ UNCHANGED <<memories, vectors, now, nextId, inflight>>

GetRecentMemories ==
    /\ turn.retrieval = "created"
    /\ LET recent_ids == get_memories(memories, turn.session,
                                      {"conversation"}, RecentLimit)
       IN turn' = [turn EXCEPT
                      !.retrieval = "recent_read",
                      !.recent_memories =
                          [i \in 1..Len(recent_ids) |-> memories[recent_ids[i]]]]
    /\ last' = Observation("get_memories", turn.session, 0, 0, NoSummary)
    /\ UNCHANGED <<memories, vectors, now, nextId, steps, inflight>>

HybridSearchOfTurn(embedding, outcome) ==
    /\ turn.retrieval = "recent_read"
    /\ \E distance \in DistanceProfiles(vectors, embedding) :
         LET relevant_memories ==
                 hybrid_search(memories, vectors, distance, turn.message,
                               RelevantLimit, turn.session, {},
                               DefaultMinRelevance, embedding, outcome,
                               now).retrieved_memories
             r == ContextFrom(turn.recent_memories, relevant_memories,
                              DefaultContextTokens, FALSE)
         IN last' = [op |-> "retrieve_context", query |-> turn.message,
                     session |-> turn.session,
                     max_tokens |-> DefaultContextTokens,
                     embedding |-> embedding, outcome |-> outcome,
                     raised |-> FALSE, distance |-> distance,
                     recent_memories |-> r.recent_memories,
                     recent_window |-> r.recent_window,
                     relevant_memories |-> r.relevant_memories,
                     sorted_memories |-> r.sorted_memories,
                     selected_memories |-> r.selected_memories]
    /\ turn' = [turn EXCEPT !.retrieval = "done"]
    /\ UNCHANGED <<memories, vectors, now, nextId, steps, inflight>>

SaveUserMessage ==
    /\ turn.save = "created"
    /\ LET r == save_message(memories, nextId, turn.session, turn.message,
                             "user", "ok", now)
       IN /\ memories' = r.memories
          /\ nextId' = r.nextId
          /\ last' = Observation("save_message", turn.session, now - Hour, 0,
                                 r.summary)
                        @@ [writes |-> "ok", result |-> r.result]
    /\ turn' = [turn EXCEPT !.save = "done"]
    /\ UNCHANGED <<vectors, now, steps, inflight>>

TurnNext ==
    \/ \E s \in Sessions, text \in MessageTexts : ProcessMessage(s, text)
    \/ GetRecentMemories
    \/ \E embedding \in EmbeddingOutcomes, outcome \in SearchOutcomes :
            HybridSearchOfTurn(embedding, outcome)
    \/ SaveUserMessage

TurnSpec == SearchInit /\ [][TurnNext]_vars

-----------------------------------------------------------------------------
(* Properties of the memory life cycle, checked under Spec *)

Ran(op) == last.op = op

SummaryMade == last.summary # NoSummary /\ last.summary \in DOMAIN memories

\* the ids a summary row records as its sources, under either metadata key
SourcesOf(row) ==
    Range(row.metadata.compressed_memory_ids)
        \cup Range(row.metadata.compressed_memories)

SameButRelevanceAndMetadata(a, b) ==
    /\ a.id = b.id
    /\ a.session_id = b.session_id
    /\ a.memory_type = b.memory_type
    /\ a.content = b.content
    /\ a.token_count = b.token_count
    /\ a.timestamp = b.timestamp
    /\ a.compression_ratio = b.compression_ratio

\* C2: save_message returns before the compression it triggers has written
\* anything: at its return no summary row has been added and no earlier row
\* has been changed.
C2_SaveReturnsBeforeCompression ==
    [][last'.op = "save_message" =>
          /\ \A id \in DOMAIN memories :
                id \in DOMAIN memories' /\ memories'[id] = memories[id]
          /\ \A id \in DOMAIN memories' \ DOMAIN memories :
                memories'[id].memory_type # "summary"]_vars

\* C3: after a compression that creates a summary (either path), every source
\* has its former relevance times 0.2, and the ids recorded in the summary are
\* exactly the rows whose relevance that compression changed.
C3_SourcesDecayedByOneFifth ==
    [][(last'.op \in {"compress_memory_batch", "save_message"}
            /\ last'.summary # NoSummary) =>
          LET sources == SourcesOf(memories'[last'.summary])
          IN /\ sources \subseteq DOMAIN memories
             /\ \A id \in sources :
                    /\ id \in DOMAIN memories'
                    /\ 10 * memories'[id].relevance_score.n
                          * memories[id].relevance_score.d
                       = 2 * memories[id].relevance_score.n
                           * memories'[id].relevance_score.d
             /\ sources = {id \in DOMAIN memories :
                              \/ id \notin DOMAIN memories'
                              \/ memories'[id].relevance_score
                                    # memories[id].relevance_score}]_vars

CompressionOps ==
    {"compress_memory_batch", "adaptive_compression", "save_message",
     "recompute_relevance_scores"}

\* C4: compression and decay operations keep every existing row, with the
\* same id, session, type, content, token count, timestamp and compression
\* ratio.
C4_CompressionKeepsRows ==
    [][last'.op \in CompressionOps =>
          \A id \in DOMAIN memories :
              /\ id \in DOMAIN memories'
              /\ SameButRelevanceAndMetadata(memories[id], memories'[id])]_vars

C4_Witness ==
    /\ last.op \in CompressionOps
    /\ \E id \in DOMAIN memories :
          /\ memories[id].memory_type # "summary"
          /\ RLess(memories[id].relevance_score, Rat(7, 10))
          /\ last.op = "recompute_relevance_scores" \/ SummaryMade

Eligible(mems, s, cutoff) ==
    {id \in DOMAIN mems :
        /\ mems[id].session_id = s
        /\ mems[id].timestamp < cutoff
        /\ mems[id].memory_type # "summary"
        /\ 10 * mems[id].relevance_score.n > 3 * mems[id].relevance_score.d}

Older(mems, a, b) ==
    \/ mems[a].timestamp < mems[b].timestamp
    \/ mems[a].timestamp = mems[b].timestamp /\ a < b

\* the k oldest rows of a set: those with fewer than k older rows in the set
Oldest(mems, ids, k) ==
    {id \in ids : Cardinality({j \in ids : Older(mems, j, id)}) < k}

\* C5: compress_memory_batch changes nothing when fewer than 5 rows are
\* eligible; when it makes a summary, the sources are exactly the min(n, 20)
\* oldest eligible rows, never more than 20.
C5_BatchBounds ==
    [][last'.op = "compress_memory_batch" =>
          LET eligible == Eligible(memories, last'.session, last'.cutoff)
              n == Cardinality(eligible)
          IN /\ n < 5 => memories' = memories /\ last'.summary = NoSummary
             /\ last'.summary = NoSummary => memories' = memories
             /\ last'.summary # NoSummary =>
                  LET sources == SourcesOf(memories'[last'.summary])
                  IN /\ n >= 5
                     /\ sources = Oldest(memories, eligible,
                                         IF n < 20 THEN n ELSE 20)
                     /\ Cardinality(sources) <= 20
                     /\ sources = {id \in DOMAIN memories :
                                      memories'[id] # memories[id]}]_vars

\* a batch of 20 was made while a further eligible row was left out
C5_Witness ==
    /\ Ran("compress_memory_batch")
    /\ SummaryMade
    /\ Cardinality(SourcesOf(memories[last.summary])) = 20
    /\ Eligible(memories, last.session, last.cutoff) # {}

\* C6: cleanup_old_memories(days) removes exactly the rows that are more than
\* `days` old and have relevance below 0.3, leaves the others as they were,
\* and no other operation removes a row.
C6_CleanupExact ==
    [][/\ last'.op = "cleanup_old_memories" =>
            \A id \in DOMAIN memories :
                /\ id \notin DOMAIN memories' <=>
                      /\ now - memories[id].timestamp > last'.days * Day
                      /\ 10 * memories[id].relevance_score.n
                            < 3 * memories[id].relevance_score.d
                /\ id \in DOMAIN memories' => memories'[id] = memories[id]
       /\ last'.op # "cleanup_old_memories" =>
            DOMAIN memories \subseteq DOMAIN memories']_vars

\* cleanup has removed a row and kept another
C6_Witness ==
    /\ Ran("cleanup_old_memories")
    /\ \E id \in 1..(nextId - 1) : id \notin DOMAIN memories
    /\ \E id \in DOMAIN memories :
          now - memories[id].timestamp > last.days * Day

\* C10: every stored relevance score lies in [0, 1].
C10_RelevanceInUnitInterval ==
    \A id \in DOMAIN memories :
        /\ memories[id].relevance_score.d > 0
        /\ memories[id].relevance_score.n >= 0
        /\ memories[id].relevance_score.n <= memories[id].relevance_score.d

\* a row decayed by compression and then by the daily decay
C10_Witness ==
    /\ Ran("recompute_relevance_scores")
    /\ \E id \in DOMAIN memories :
          /\ memories[id].metadata.compressed
          /\ RLess(memories[id].relevance_score, Rat(2, 10))

\* the token total adaptive_compression compares with the threshold
SessionTokens(mems, s) ==
    SumTokens({id \in DOMAIN mems : mems[id].session_id = s}, mems)

\* C11: adaptive_compression on a session whose token total is below the
\* threshold of 8000 makes no summary, adds no row and changes no row.
C11_BelowThresholdNoOp ==
    [][(last'.op = "adaptive_compression"
            /\ SessionTokens(memories, last'.session) < 8000) =>
          /\ memories' = memories
          /\ nextId' = nextId
          /\ last'.summary = NoSummary]_vars

\* adaptive_compression ran on a session below the threshold that holds at
\* least five rows a batch could take
C11_Witness ==
    /\ Ran("adaptive_compression")
    /\ SessionTokens(memories, last.session) < 8000
    /\ Cardinality(Eligible(memories, last.session, now)) >= 5

\* the cutoffs adaptive_compression derives that have at least five eligible
\* rows before them
FruitfulCutoffs(mems, s, clock) ==
    {cutoff \in Range(compression_points(_get_session_memory_stats(mems, s),
                                         clock)) :
        Cardinality(Eligible(mems, s, cutoff)) >= 5}

\* C12: when the session's tokens exceed the threshold and exactly one derived
\* cutoff has at least five eligible rows before it, adaptive_compression
\* adds exactly one summary row, whose sources are the up-to-20 oldest
\* eligible rows before that cutoff.
C12_OneSummaryPerFruitfulCutoff ==
    [][(/\ last'.op = "adaptive_compression"
        /\ SessionTokens(memories, last'.session) > 8000
        /\ Cardinality(FruitfulCutoffs(memories, last'.session, now)) = 1) =>
          LET cutoff == CHOOSE c \in FruitfulCutoffs(memories, last'.session,
                                                     now) : TRUE
              eligible == Eligible(memories, last'.session, cutoff)
              n == Cardinality(eligible)
              added == DOMAIN memories' \ DOMAIN memories
          IN /\ Cardinality(added) = 1
             /\ \A id \in added :
                    /\ memories'[id].memory_type = "summary"
                    /\ memories'[id].session_id = last'.session
                    /\ SourcesOf(memories'[id])
                          = Oldest(memories, eligible,
                                   IF n < 20 THEN n ELSE 20)]_vars

\* C13: save_message returns true only when the message and its conversation
\* memory were both persisted; when either insert fails it returns false, and
\* it does not retry: no row for the message appears in the store.
C13_SaveReportsFailedWrite ==
    [][last'.op = "save_message" =>
          /\ last'.result <=> last'.writes = "ok"
          /\ last'.writes # "ok" =>
                \A id \in DOMAIN memories' \ DOMAIN memories :
                    memories'[id].memory_type # "conversation"]_vars

\* C14: when compress_memory_batch fails (the provider gives no summary, the
\* circuit breaker is open, or the summary cannot be stored) it stores no
\* summary and changes no row, so the rows eligible before the call are the
\* rows eligible after it.
C14_FailedBatchLeavesSources ==
    [][(last'.op = "compress_memory_batch"
            /\ (last'.completion = <<>> \/ ~last'.stored)) =>
          /\ memories' = memories
          /\ last'.summary = NoSummary
          /\ Eligible(memories', last'.session, last'.cutoff)
                = Eligible(memories, last'.session, last'.cutoff)]_vars

\* the summary of a batch of at least five eligible rows could not be stored
C14_Witness ==
    /\ Ran("compress_memory_batch")
    /\ ~last.stored
    /\ last.completion # <<>>
    /\ Cardinality(Eligible(memories, last.session, last.cutoff)) >= 5

\* C15: recompute_relevance_scores changes only rows of its session that are
\* more than one day old, and is idempotent: run again on the same session
\* right after a run, it leaves the store as that run left it.
C15_RecomputeIdempotent ==
    [][last'.op = "recompute_relevance_scores" =>
          /\ DOMAIN memories' = DOMAIN memories
          /\ \A id \in DOMAIN memories :
                memories'[id] # memories[id] =>
                    /\ memories[id].session_id = last'.session
                    /\ now - memories[id].timestamp > Day
          /\ (last.op = "recompute_relevance_scores"
                  /\ last.session = last'.session) => memories' = memories]_vars

\* C16: whatever compression passes have run on a session, in whatever
\* order, no two summary rows of the session record a common source id.
C16_SummariesDisjoint ==
    \A a \in DOMAIN memories, b \in DOMAIN memories :
        (/\ a # b
         /\ memories[a].memory_type = "summary"
         /\ memories[b].memory_type = "summary"
         /\ memories[a].session_id = memories[b].session_id) =>
            SourcesOf(memories[a]) \cap SourcesOf(memories[b]) = {}

\* C17: every decay write scales the relevance stored at the moment of the
\* write: the sources of a compression end at 0.2 times what the store held
\* just before the compression wrote, and a daily decay leaves 0.95 times what
\* the store held, so that neither decay undoes the other.
C17_DecayScalesStoredRelevance ==
    [][/\ (last'.op = "_mark_memories_compressed"
              /\ last'.summary # NoSummary) =>
            \A id \in SourcesOf(memories'[last'.summary]) \cap DOMAIN memories :
                10 * memories'[id].relevance_score.n
                      * memories[id].relevance_score.d
                  = 2 * memories[id].relevance_score.n
                      * memories'[id].relevance_score.d
       /\ last'.op = "recompute_relevance_scores" =>
            \A id \in DOMAIN memories :
                \/ memories'[id] = memories[id]
                \/ 100 * memories'[id].relevance_score.n
                         * memories[id].relevance_score.d
                     = 95 * memories[id].relevance_score.n
                          * memories'[id].relevance_score.d]_vars

\* the rows an earlier pass of _compress_old_memories has taken as sources
CompressedInline(mems, s) ==
    UNION {Range(mems[id].metadata.compressed_memories) :
              id \in {i \in DOMAIN mems : /\ mems[i].memory_type = "summary"
                                          /\ mems[i].session_id = s}}

\* C26: over a sequence of save_message calls _compress_old_memories takes a
\* row as a source at most once: the sources of the summary a call makes are
\* not sources of an earlier summary, and a row that is one keeps its
\* relevance.
C26_InlineCompressionOnce ==
    [][last'.op = "save_message" =>
          /\ last'.summary # NoSummary =>
                SourcesOf(memories'[last'.summary])
                    \cap CompressedInline(memories, last'.session) = {}
          /\ \A id \in CompressedInline(memories, last'.session)
                        \cap DOMAIN memories :
                memories'[id].relevance_score
                    = memories[id].relevance_score]_vars

\* the session's rows the inline pass takes its sources from
OldUncompressed(mems, s, clock) ==
    {id \in DOMAIN mems : /\ mems[id].session_id = s
                          /\ mems[id].memory_type # "summary"
                          /\ mems[id].compression_ratio = One
                          /\ mems[id].timestamp < clock - Hour}

C27_SourcesWereSummarised ==
    [][(last'.op = "compress_memory_batch" /\ last'.summary # NoSummary) =>
          /\ SourcesOf(memories'[last'.summary]) \subseteq Range(last'.sent)
          /\ \A id \in DOMAIN memories :
                memories'[id] # memories[id] => id \in Range(last'.sent)]_vars

-----------------------------------------------------------------------------
(* Properties of retrieval, checked under SearchSpec *)

RECURSIVE TokenSum(_)
TokenSum(seq) ==
    IF seq = <<>> THEN 0 ELSE Head(seq).token_count + TokenSum(Tail(seq))

\* C1: the memories retrieve_context returns have a summed token count of at
\* most max_tokens, on the error path (an empty list) as well.
C1_ContextWithinBudget ==
    Ran("retrieve_context") =>
        /\ TokenSum(last.selected_memories) <= last.max_tokens
        /\ last.raised => last.selected_memories = <<>>

\* the budget cut the selection short of the candidates
C1_Witness ==
    /\ Ran("retrieve_context")
    /\ ~last.raised
    /\ last.selected_memories # <<>>
    /\ Len(last.selected_memories) < Len(last.sorted_memories)
    /\ TokenSum(last.sorted_memories) > last.max_tokens

Ids(results) == {results[i].memory.id : i \in 1..Len(results)}

\* the score a branch's result list gives a memory, 0 when it is not listed
ScoreIn(results, id) ==
    IF id \in Ids(results)
    THEN (CHOOSE e \in Range(results) : e.memory.id = id).score
    ELSE 0

\* the fused score 0.7 * s + 0.3 * k, from the two branches' lists as returned
Fused(id) ==
    7 * ScoreIn(last.semantic_results, id) + 3 * ScoreIn(last.keyword_results, id)

Candidates == Ids(last.semantic_results) \cup Ids(last.keyword_results)

SemanticFailed == last.embedding # "ok"

KeywordFailed == last.outcome # "ok"

\* C7: when a branch of hybrid_search fails, its result list is empty, the
\* other branch's list is what that branch finds on its own, every one of
\* its candidates that meets the threshold is ranked, and each is scored
\* with 0 for the failed branch.
C7_BranchFailureIsolated ==
    Ran("hybrid_search") =>
        /\ SemanticFailed => last.semantic_results = <<>>
        /\ KeywordFailed => last.keyword_results = <<>>
        /\ (SemanticFailed /\ ~KeywordFailed) =>
              /\ last.keyword_results =
                    keyword_search(memories, last.query, last.limit,
                                   last.session, last.types, "ok", now)
              /\ \A e \in Range(last.keyword_results) :
                    3 * e.score >= last.min_relevance =>
                        \E f \in Range(last.final_results) :
                            /\ f.memory.id = e.memory.id
                            /\ f.score = 3 * e.score
        /\ (KeywordFailed /\ ~SemanticFailed) =>
              /\ last.semantic_results =
                    semantic_search(memories, vectors, last.distance,
                                    last.query, last.limit, last.session,
                                    last.types, "ok", now)
              /\ \A e \in Range(last.semantic_results) :
                    7 * e.score >= last.min_relevance =>
                        \E f \in Range(last.final_results) :
                            /\ f.memory.id = e.memory.id
                            /\ f.score = 7 * e.score

\* no embedding for the query, and the keyword branch alone fills the result
C7_Witness ==
    /\ Ran("hybrid_search")
    /\ last.embedding = "none"
    /\ last.outcome = "ok"
    /\ last.keyword_results # <<>>
    /\ Len(last.retrieved_memories) = Len(last.keyword_results)

\* C8: every ranked memory carries 0.7 * s + 0.3 * k, with s and k its scores
\* in the semantic and the keyword list (0 where it is not listed), and no
\* id is ranked twice.
C8_FusedScore ==
    Ran("hybrid_search") =>
        /\ \A e \in Range(last.final_results) :
              /\ e.memory.id \in Candidates
              /\ e.score = Fused(e.memory.id)
        /\ \A i, j \in 1..Len(last.final_results) :
              last.final_results[i].memory.id = last.final_results[j].memory.id
                  => i = j
        /\ \A id \in Candidates :
              Fused(id) >= last.min_relevance => id \in Ids(last.final_results)

\* one ranking holds a memory of both lists, one of the semantic list only
\* and one of the keyword list only
C8_Witness ==
    /\ Ran("hybrid_search")
    /\ \E a, b, c \in Ids(last.final_results) :
          /\ ScoreIn(last.semantic_results, a) > 0
          /\ ScoreIn(last.keyword_results, a) > 0
          /\ b \in Ids(last.semantic_results) \ Ids(last.keyword_results)
          /\ c \in Ids(last.keyword_results) \ Ids(last.semantic_results)

Returned == {last.retrieved_memories[i].id : i \in 1..Len(last.retrieved_memories)}

\* C9: hybrid_search returns at most limit memories, no id twice, each with a
\* fused score of at least min_relevance, in non-increasing order of fused
\* score, and no candidate left out has a higher fused score than a returned
\* one.
C9_RankedResult ==
    Ran("hybrid_search") =>
        LET result == last.retrieved_memories
        IN /\ Len(result) <= last.limit
           /\ \A i, j \in 1..Len(result) : result[i].id = result[j].id => i = j
           /\ Returned \subseteq Candidates
           /\ \A id \in Returned : Fused(id) >= last.min_relevance
           /\ \A i, j \in 1..Len(result) :
                 i < j => Fused(result[i].id) >= Fused(result[j].id)
           /\ \A c \in Candidates \ Returned :
                 \A id \in Returned : Fused(c) <= Fused(id)

\* the threshold removed a candidate and the limit cut the ranking
C9_Witness ==
    /\ Ran("hybrid_search")
    /\ Len(last.retrieved_memories) = last.limit
    /\ Len(last.final_results) > last.limit
    /\ \E c \in Candidates : Fused(c) < last.min_relevance

MemoryIds(seq) == {seq[i].id : i \in 1..Len(seq)}

\* the k newest rows of a set: those with fewer than k newer rows in the set
Newest(mems, ids, k) ==
    {id \in ids : Cardinality({j \in ids : Older(mems, id, j)}) < k}

ConversationRows(mems, s) ==
    {id \in DOMAIN mems : /\ mems[id].session_id = s
                          /\ mems[id].memory_type = "conversation"}

\* C18: the recency window of retrieve_context is the 10 most recent
\* conversation rows of the session, all of them when there are fewer.
C18_WindowIsNewestTen ==
    (Ran("retrieve_context") /\ ~last.raised) =>
        MemoryIds(last.recent_window)
            = Newest(memories, ConversationRows(memories, last.session), 10)

\* C19: the candidates of retrieve_context hold each id once, and an id of
\* the recency window is held with the row as stored, metadata included, also
\* when the hybrid search returned it too.
C19_WindowEntryKept ==
    (Ran("retrieve_context") /\ ~last.raised) =>
        \A i \in 1..Len(last.sorted_memories) :
            /\ \A j \in 1..Len(last.sorted_memories) :
                    last.sorted_memories[j].id = last.sorted_memories[i].id
                        => j = i
            /\ last.sorted_memories[i].id \in MemoryIds(last.recent_window) =>
                    last.sorted_memories[i]
                        = memories[last.sorted_memories[i].id]

StampOf(id) ==
    (CHOOSE e \in Range(last.semantic_results) \cup Range(last.keyword_results) :
        e.memory.id = id).memory.timestamp

\* C21: in the list hybrid_search returns, of two memories with the same
\* fused score the more recent comes first, and a candidate that passes the
\* threshold but is cut by the limit is not more recent than a returned
\* memory of the same fused score.
C21_TiesNewestFirst ==
    Ran("hybrid_search") =>
        LET result == last.retrieved_memories
        IN /\ \A i, j \in 1..Len(result) :
                 (i < j /\ Fused(result[i].id) = Fused(result[j].id)) =>
                     result[i].timestamp >= result[j].timestamp
           /\ \A c \in Candidates \ Returned :
                 \A id \in Returned :
                     (Fused(c) >= last.min_relevance /\ Fused(c) = Fused(id)) =>
                         StampOf(id) >= StampOf(c)

-----------------------------------------------------------------------------
(* Properties of the cutoffs, checked under PointsSpec *)

SessionStamps(mems, s) ==
    {mems[id].timestamp : id \in {i \in DOMAIN mems : mems[i].session_id = s}}

\* newest minus oldest timestamp of a session that has rows
SpanOf(mems, s) ==
    LET stamps == SessionStamps(mems, s)
    IN (CHOOSE t \in stamps : \A u \in stamps : u <= t)
         - (CHOOSE t \in stamps : \A u \in stamps : t <= u)

\* C22: the candidate cutoffs follow the session's span: under one hour the
\* single cutoff 30 minutes ago; from one hour to under one day the two
\* cutoffs 4 hours ago and 1 hour ago; for d >= 1 whole days one cutoff per
\* day back, at 1, 2, ..., min(d, 7) days ago.
C22_CutoffsFollowSpan ==
    (Ran("_calculate_compression_points")
        /\ SessionStamps(memories, last.session) # {}) =>
        LET span == SpanOf(memories, last.session)
            d == span \div Day
            points == last.compression_points
        IN /\ span < Hour => points = <<now - ThirtyMinutes>>
           /\ (span >= Hour /\ span < Day) =>
                  /\ Len(points) = 2
                  /\ Range(points) = {now - 4 * Hour, now - Hour}
           /\ span >= Day =>
                  /\ Len(points) = (IF d < 7 THEN d ELSE 7)
                  /\ Range(points)
                        = {now - k * Day : k \in 1..(IF d < 7 THEN d ELSE 7)}

\* C23: a candidate cutoff is kept for processing exactly when the session
\* being compressed has at least five eligible rows before it.
C23_CutoffKeptIffFiveEligible ==
    Ran("_calculate_compression_points") =>
        \A point \in Range(last.compression_points) :
            point \in Range(last.valid_points)
                <=> Cardinality(Eligible(memories, last.session, point)) >= 5

-----------------------------------------------------------------------------
(* Properties of MemoryManager.search_memories, checked under SearchSpec *)

\* C24: search_memories returns every row that matches the session and type
\* filters and has relevance above 0.9, with or without a query keyword in
\* its content, for every limit and every threshold.
C24_HighRelevanceAlwaysReturned ==
    Ran("search_memories") =>
        \A id \in DOMAIN memories :
            (/\ last.session # "" => memories[id].session_id = last.session
             /\ last.types # {} => memories[id].memory_type \in last.types
             /\ 10 * memories[id].relevance_score.n
                   > 9 * memories[id].relevance_score.d) =>
                id \in MemoryIds(last.result)

-----------------------------------------------------------------------------
(* Properties of a turn, checked under TurnSpec *)

\* C25: in a turn of process_message the user message has been persisted
\* as a memory when the retriever reads the store, at the read of the recent
\* rows and at the hybrid search.
C25_MessageSavedBeforeRetrieval ==
    [][last'.op \in {"get_memories", "retrieve_context"} =>
          turn.save = "done"]_vars

\* the rows and the stored embeddings of one session
OwnRows(s) ==
    [id \in {i \in DOMAIN memories : memories[i].session_id = s} |->
        memories[id]]

OwnVectors(s) == [id \in {i \in DOMAIN vectors : vectors[i] = s} |-> vectors[id]]

\* C29: every memory retrieve_context reads, ranks or returns for a session
\* belongs to that session, and the call returns what it would return if
\* the store and the vector collection held that session's rows only.
C29_SessionIsolation ==
    Ran("retrieve_context") =>
        LET alone == retrieve_context(OwnRows(last.session),
                                      OwnVectors(last.session), last.distance,
                                      last.query, last.session, last.max_tokens,
                                      last.embedding, last.outcome, last.raised,
                                      now)
        IN /\ \A m \in Range(last.selected_memories)
                       \cup Range(last.sorted_memories)
                       \cup Range(last.relevant_memories)
                       \cup Range(last.recent_memories) :
                 m.session_id = last.session
           /\ last.selected_memories = alone.selected_memories
           /\ last.sorted_memories = alone.sorted_memories

\* a call that returned memories while another session held a row that
\* matches the query by keyword and is the nearest stored embedding
C29_Witness ==
    /\ Ran("retrieve_context")
    /\ ~last.raised
    /\ last.embedding = "ok"
    /\ last.outcome = "ok"
    /\ last.selected_memories # <<>>
    /\ \E id \in DOMAIN memories \cap DOMAIN vectors :
          /\ memories[id].session_id # last.session
          /\ last.distance[id] = Near
          /\ \E term \in Range(last.query) : term \in Range(memories[id].content)

\* C30: when the semantic list is empty, hybrid_search with the default
\* min_relevance of 0.3 returns a memory only if its keyword-branch score
\* is at least 1.0 (10000 in the model's units).
C30_LexicalOnlyNeedsFullScore ==
    (/\ Ran("hybrid_search")
     /\ last.semantic_results = <<>>
     /\ last.min_relevance = DefaultMinRelevance) =>
        \A id \in Returned : ScoreIn(last.keyword_results, id) >= 10000

\* the keyword branch alone found rows, the best of them well above the
\* branch's own floor, and the threshold let none of them through
C30_Witness ==
    /\ Ran("hybrid_search")
    /\ last.embedding = "none"
    /\ last.min_relevance = DefaultMinRelevance
    /\ last.retrieved_memories = <<>>
    /\ \E e \in Range(last.keyword_results) : e.score >= 9000 /\ e.score < 10000

====
